---- MODULE Spec2Model ----
(***************************************************************************)
(* Model of the asteroid-impact service in NASAapp.py: the physics helpers, *)
(* the /simulate handler with its optional NEO catalog lookup, and the      *)
(* /story handler.                                                          *)
(*                                                                          *)
(* Python floats are modelled as a logarithmic number system.  A finite     *)
(* float is its sign s and, when s # 0, the exponent e = 100 * log10 |x|     *)
(* rounded to an integer (a "centi-decade": 50 m is e = 170, 20000 m/s is   *)
(* e = 430).  Products, quotients and powers are then exact up to that      *)
(* rounding; the one difference the code takes (v - deflection) goes        *)
(* through the table Pow10.  Infinity, NaN and the complex result of a      *)
(* negative base under a fractional power are values of their own, and the  *)
(* exceptions Python raises (float() on a non-number, OverflowError of **,  *)
(* TypeError of ordering a complex) are outcomes of the handler.            *)
(***************************************************************************)
EXTENDS Integers, Sequences, FiniteSets, TLC

VARIABLES pc, op, data, neo, lookups, resp, served, kin, kout

vars == <<pc, op, data, neo, lookups, resp, served, kin, kout>>

\* Number of requests one behaviour serves.
MaxRequests == 2
\* Half-width, in decades, of the energy grid of the kernel specification.
MaxDecades == 30

(* ------------------------------ floats ------------------------------ *)

Fin(s, e) == [c |-> "num", s |-> s, e |-> e]
Zero == [c |-> "num", s |-> 0, e |-> 0]
Pos(e) == Fin(1, e)
Neg(e) == Fin(-1, e)
PosInf == [c |-> "inf", s |-> 1, e |-> 0]
NegInf == [c |-> "inf", s |-> -1, e |-> 0]
NaN == [c |-> "nan", s |-> 0, e |-> 0]
\* the complex number a negative base gives under a fractional power
Cplx == [c |-> "cplx", s |-> 0, e |-> 0]
\* a JSON member that is missing, and one that float() cannot convert
Absent == [c |-> "absent", s |-> 0, e |-> 0]
NonNumeric == [c |-> "bad", s |-> 0, e |-> 0]
\* JSON null (Python None)
Null == [c |-> "null", s |-> 0, e |-> 0]

IsNum(a) == a.c = "num"
IsReal(a) == a.c \in {"num", "inf"}
IsFloat(a) == a.c \in {"num", "inf", "nan"}

\* A double holds magnitudes up to about 10^308.25.  Its smallest positive
\* value is the subnormal 2^-1074, about 10^-323.31; a result below half of
\* it (10^-323.607) rounds to zero.  The two zeros are one value here: the
\* code never tells -0.0 from 0.0 (-0.0 <= 0, max(0.001, -0.0) = 0.001,
\* (-0.0) ** 0.25 = 0.0).
Overflows(e) == e > 30825
Underflows(e) == e < -32360

\* an order-preserving integer for a real (finite or infinite) float
Rank(a) ==
    IF a.c = "inf" THEN a.s * 100000
    ELSE IF a.s = 0 THEN 0
    ELSE a.s * (a.e + 50000)

\* Python's < and <= on floats: false when either side is NaN
Lt(a, b) == IsReal(a) /\ IsReal(b) /\ Rank(a) < Rank(b)
Le(a, b) == IsReal(a) /\ IsReal(b) /\ Rank(a) <= Rank(b)

\* Python's max(a, b) and min(a, b): the first argument unless the second
\* compares greater (smaller)
PyMax(a, b) == IF Lt(a, b) THEN b ELSE a
PyMin(a, b) == IF Lt(b, a) THEN b ELSE a

\* 1000 * 10^(i/100), i = 0..100
Pow10 ==
    <<1000, 1023, 1047, 1072, 1096, 1122, 1148, 1175, 1202, 1230,
      1259, 1288, 1318, 1349, 1380, 1413, 1445, 1479, 1514, 1549,
      1585, 1622, 1660, 1698, 1738, 1778, 1820, 1862, 1905, 1950,
      1995, 2042, 2089, 2138, 2188, 2239, 2291, 2344, 2399, 2455,
      2512, 2570, 2630, 2692, 2754, 2818, 2884, 2951, 3020, 3090,
      3162, 3236, 3311, 3388, 3467, 3548, 3631, 3715, 3802, 3890,
      3981, 4074, 4169, 4266, 4365, 4467, 4571, 4677, 4786, 4898,
      5012, 5129, 5248, 5370, 5495, 5623, 5754, 5888, 6026, 6166,
      6310, 6457, 6607, 6761, 6918, 7079, 7244, 7413, 7586, 7762,
      7943, 8128, 8318, 8511, 8710, 8913, 9120, 9333, 9550, 9772,
      10000>>

Abs(n) == IF n < 0 THEN -n ELSE n

RECURSIVE TenTo(_)
TenTo(k) == IF k = 0 THEN 1 ELSE 10 * TenTo(k - 1)

\* 10000 * 10^(-g/100) for a gap g >= 0, 0 once it is below the resolution
Frac(g) ==
    IF g >= 400 THEN 0
    ELSE LET q == g \div 100
             r == g % 100
             m == IF r = 0 THEN 10000 ELSE Pow10[101 - r]
         IN m \div TenTo(q)

\* 100 * log10(m / 1000) for 1000 <= m <= 10000, to the nearest entry of
\* Pow10: the number of midpoints between neighbouring entries up to m
LogIndex(m) ==
    Cardinality({i \in 1..100 : Pow10[i] + Pow10[i + 1] <= 2 * m})

RECURSIVE LogOf(_)
\* 100 * log10(d / 10000) for 0 < d
LogOf(d) ==
    IF d < 1000 THEN LogOf(10 * d) - 100
    ELSE IF d > 10000 THEN LogOf(d \div 10) + 100
    ELSE LogIndex(d) - 100

\* n / d to the nearest integer, halves up
RoundDiv(n, d) == (2 * n + d) \div (2 * d)

\* |a| + |b| and |a| - |b| of finite magnitudes 10^(ea/100) >= 10^(eb/100)
AddMag(ea, eb) == ea + LogOf(10000 + Frac(ea - eb))
SubMag(ea, eb) == ea + LogOf(10000 - Frac(ea - eb))

\* The doubles below 10^-321.7 are the first multiples k * 2^-1074 of the
\* smallest subnormal.  SubnormalGrid lists them as 100 * log10, and
\* SubnormalFrom the least exponent that rounds to each.
SubnormalGrid ==
    <<-32331, -32301, -32283, -32270, -32261, -32253, -32246, -32240,
      -32235, -32231, -32226, -32223, -32219, -32216, -32213, -32210,
      -32208, -32205, -32203, -32201, -32198, -32196, -32194, -32193,
      -32191, -32189, -32187, -32186, -32184, -32183, -32181, -32180,
      -32179, -32177, -32176, -32175, -32174, -32173, -32172, -32170>>

SubnormalFrom ==
    <<-32360, -32313, -32290, -32276, -32265, -32256, -32249, -32243,
      -32237, -32232, -32228, -32224, -32220, -32217, -32214, -32211,
      -32208, -32206, -32203, -32201, -32199, -32197, -32195, -32193,
      -32191, -32189, -32188, -32186, -32185, -32183, -32182, -32180,
      -32179, -32178, -32176, -32175, -32174, -32173, -32172, -32170>>

\* the double nearest to 10^(e/100), for -32360 <= e <= -32170
Subnormal(e) ==
    SubnormalGrid[Cardinality({k \in DOMAIN SubnormalFrom :
                                 SubnormalFrom[k] <= e})]

\* the result of an arithmetic operation whose magnitude is 10^(e/100)
Mk(s, e) ==
    IF s = 0 THEN Zero
    ELSE IF Overflows(e) THEN [c |-> "inf", s |-> s, e |-> 0]
    ELSE IF Underflows(e) THEN Zero
    ELSE IF e <= -32170 THEN Fin(s, Subnormal(e))
    ELSE Fin(s, e)

\* a + b on finite floats
AddFin(a, b) ==
    IF b.s = 0 THEN a
    ELSE IF a.s = 0 THEN b
    ELSE IF a.s = b.s
         THEN IF a.e >= b.e THEN Mk(a.s, AddMag(a.e, b.e))
                            ELSE Mk(a.s, AddMag(b.e, a.e))
    ELSE IF a.e = b.e THEN Zero
    ELSE IF a.e > b.e THEN Mk(a.s, SubMag(a.e, b.e))
    ELSE Mk(b.s, SubMag(b.e, a.e))

Negate(a) == IF IsReal(a) THEN [a EXCEPT !.s = -a.s] ELSE a

\* a - b on floats
Sub(a, b) ==
    IF a.c = "nan" \/ b.c = "nan" THEN NaN
    ELSE IF a.c = "inf" /\ b.c = "inf" THEN (IF a.s = b.s THEN NaN ELSE a)
    ELSE IF a.c = "inf" THEN a
    ELSE IF b.c = "inf" THEN Negate(b)
    ELSE AddFin(a, Negate(b))

\* a * b on floats; a complex operand gives a complex product
Mul(a, b) ==
    IF a.c = "cplx" \/ b.c = "cplx" THEN Cplx
    ELSE IF a.c = "nan" \/ b.c = "nan" THEN NaN
    ELSE IF a.c = "inf" \/ b.c = "inf"
         THEN IF a.s * b.s = 0 THEN NaN
              ELSE [c |-> "inf", s |-> a.s * b.s, e |-> 0]
    ELSE Mk(a.s * b.s, a.e + b.e)

\* a / b on floats, b # 0 (every divisor of the code is a non-zero constant
\* or max(1.0, water_depth_m))
Div(a, b) ==
    IF a.c = "nan" \/ b.c = "nan" THEN NaN
    ELSE IF a.c = "inf" /\ b.c = "inf" THEN NaN
    ELSE IF a.c = "inf" THEN [c |-> "inf", s |-> a.s * b.s, e |-> 0]
    ELSE IF b.c = "inf" THEN Zero
    ELSE Mk(a.s * b.s, a.e - b.e)

\* s^n for a sign s
SignPow(s, n) == IF n % 2 = 0 THEN s * s ELSE s

\* a ** n for an integer n >= 1 raises OverflowError when the result is
\* finite in the reals and too large for a double
PowIntRaises(a, n) == IsNum(a) /\ a.s # 0 /\ Overflows(a.e * n)

\* a ** n for an integer n >= 1 that does not raise
PowInt(a, n) ==
    IF a.c = "nan" THEN NaN
    ELSE IF a.c = "inf" THEN [c |-> "inf", s |-> SignPow(a.s, n), e |-> 0]
    ELSE Mk(SignPow(a.s, n), a.e * n)

\* a ** (1.0/d) for d in {3, 4}: 0 for 0, +inf for either infinity, a
\* complex number for a negative finite base
PowRoot(a, d) ==
    IF a.c = "nan" THEN NaN
    ELSE IF a.c = "inf" THEN PosInf
    ELSE IF a.s = 0 THEN Zero
    ELSE IF a.s < 0 THEN Cplx
    ELSE Mk(1, RoundDiv(a.e, d))

(* --------------------------- physics helpers ------------------------- *)

\* the float literals of the code, as 100 * log10
Lit_half == Pos(-30)          \* 0.5
Lit_1 == Pos(0)               \* 1.0
Lit_2 == Pos(30)              \* 2.0
Lit_3 == Pos(48)              \* 3.0
Lit_4 == Pos(60)              \* 4.0
Lit_pi == Pos(50)             \* math.pi
Lit_tnt == Pos(1562)          \* 4.184e15
Lit_007 == Pos(-115)          \* 0.07
Lit_1e15 == Pos(1500)         \* 1e15
Lit_4000 == Pos(360)          \* 4000.0
Lit_001 == Pos(-200)          \* 0.01
Lit_200 == Pos(230)           \* 200.0
Lit_0001 == Pos(-300)         \* 0.001
Lit_100 == Pos(200)           \* 100.0
Lit_5000 == Pos(370)          \* 5000.0
Lit_1000 == Pos(300)          \* 1000.0
Lit_50 == Pos(170)            \* 50.0
Lit_20000 == Pos(430)         \* 20000.0
Lit_3000 == Pos(348)          \* 3000.0

\* r ** 3 overflows
sphere_mass_raises(diameter_m, density) ==
    PowIntRaises(Div(diameter_m, Lit_2), 3)

sphere_mass(diameter_m, density) ==
    LET r == Div(diameter_m, Lit_2)
    IN Mul(Mul(Mul(Div(Lit_4, Lit_3), Lit_pi), PowInt(r, 3)), density)

\* velocity_m_s ** 2 overflows
kinetic_energy_raises(mass_kg, velocity_m_s) == PowIntRaises(velocity_m_s, 2)

kinetic_energy_joules(mass_kg, velocity_m_s) ==
    Mul(Mul(Lit_half, mass_kg), PowInt(velocity_m_s, 2))

tnt_equivalent_megatons(E_joules) == Div(E_joules, Lit_tnt)

crater_diameter_estimate_m(E_joules) == Mul(Lit_007, PowRoot(E_joules, 3))

\* A magnitude is a linear quantity: [c |-> "lin", e |-> n] is n / 144, so
\* that (log10(E) - 5.24) / 1.44 = (100 * log10(E) - 524) / 144 is exact.
Lin(n) == [c |-> "lin", s |-> 0, e |-> n]

\* line 27 with < for <=
seismic_mw_equivalent_strict(E_joules) ==
    IF Lt(E_joules, Zero) THEN Lin(0)
    ELSE IF E_joules.c = "nan" THEN NaN
    ELSE IF E_joules.c = "inf" THEN PosInf
    ELSE Lin(E_joules.e - 524)

seismic_mw_equivalent(E_joules) ==
    IF Le(E_joules, Zero) THEN Lin(0)
    ELSE IF E_joules.c = "nan" THEN NaN
    ELSE IF E_joules.c = "inf" THEN PosInf
    ELSE Lin(E_joules.e - 524)

tsunami_scale(E_joules) == PowRoot(Div(E_joules, Lit_1e15), 4)

tsunami_depth_factor(water_depth_m) ==
    PyMax(Lit_half, PyMin(Lit_2, Div(Lit_4000, PyMax(Lit_1, water_depth_m))))

tsunami_h(E_joules, water_depth_m) ==
    Mul(Mul(Lit_half, tsunami_scale(E_joules)),
        tsunami_depth_factor(water_depth_m))

\* min(h, 200.0) orders a complex h: TypeError
tsunami_height_raises(E_joules, water_depth_m) ==
    tsunami_h(E_joules, water_depth_m).c = "cplx"

\* line 35 without min(h, 200.0)
tsunami_initial_wave_height_m_unclamped(E_joules, water_depth_m) ==
    PyMax(Lit_001, tsunami_h(E_joules, water_depth_m))

tsunami_initial_wave_height_m(E_joules, water_depth_m) ==
    PyMax(Lit_001, PyMin(tsunami_h(E_joules, water_depth_m), Lit_200))

\* lines 77-80: float ** 0.25 raises only on overflow, and the base is a
\* real float here
tsunami_radius_raises(tnt_mt) ==
    LET b == PyMax(Lit_0001, tnt_mt)
    IN IsNum(b) /\ b.s > 0 /\ Overflows(RoundDiv(b.e, 4))

\* line 78 without min(5000.0, ...)
tsunami_radius_km_unclamped(tnt_mt) ==
    Mul(Lit_100, PowRoot(PyMax(Lit_0001, tnt_mt), 4))

tsunami_radius_km(tnt_mt) ==
    IF tsunami_radius_raises(tnt_mt) THEN Zero
    ELSE PyMin(Lit_5000, Mul(Lit_100, PowRoot(PyMax(Lit_0001, tnt_mt), 4)))

(* ------------------------------ utilities ---------------------------- *)

\* The outcomes of requests.get / raise_for_status / r.json(): an exception
\* with its message, or the parsed payload, which is any JSON value.  Of a
\* payload the model keeps
\*   kind    "object", "array", "string", "number" (a number or a boolean)
\*           or "null";
\*   member  what the handler's test "error" in neo finds.  For an object,
\*           its top-level "error" member: "none" when it has none, "str"
\*           when the member is a string, "other" when it is any other
\*           value.  For an array or a string, "other" when an element
\*           equals "error" or the text contains it, "none" otherwise;
\*   error   the "error" member when it is a string;
\*   dia     the value at estimated_diameter.meters.estimated_diameter_max,
\*           Absent when the path is missing (always, outside objects).
Raised(msg) ==
    [kind |-> "exc", member |-> "none", error |-> msg, dia |-> Absent]
Payload(member, err, dia) ==
    [kind |-> "object", member |-> member, error |-> err, dia |-> dia]
Scalar(kind, member) ==
    [kind |-> kind, member |-> member, error |-> "", dia |-> Absent]

\* what fetch_neo_by_id returns: {"error": str(e)} for an exception, the
\* payload otherwise
fetch_neo_by_id(outcome) ==
    IF outcome.kind = "exc" THEN Payload("str", outcome.error, Absent)
    ELSE outcome

(* ------------------------------- /simulate --------------------------- *)

NoNeoId == "<absent>"

\* data.get("neo_id") is truthy
HasNeoId(d) == d.neo_id \notin {NoNeoId, ""}

\* data.get(key, default)
Get(v, default) == IF v = Absent THEN default ELSE v

\* data.get(key): None for a missing member
GetNone(v) == IF v = Absent THEN Null ELSE v

\* a float() that converts anything
float_raises_never(x) == FALSE

\* float(x) raises ValueError or TypeError
float_raises(x) == ~IsFloat(x)

NoInput ==
    [diameter_m |-> Absent, velocity_m_s |-> Absent, density |-> Absent,
     deflection_m_s |-> Absent, impact_lat |-> Absent, impact_lon |-> Absent,
     water_depth_m |-> Absent]

NoResults ==
    [mass_kg |-> Absent, energy_joules |-> Absent, tnt_megatons |-> Absent,
     crater_diameter_m |-> Absent, seismic_mw_equivalent |-> Absent,
     tsunami_initial_height_m |-> Absent, tsunami_radius_km |-> Absent]

NoResponse ==
    [kind |-> "none", err |-> "", reason |-> "", input |-> NoInput,
     results |-> NoResults, story |-> <<>>]

\* A request that fails: line 57's 500 response (err "CatalogLookupFailed",
\* with the reason), or an exception that leaves the handler (err
\* "InvalidInput" for float(), "OverflowError" for **, "TypeError" for the
\* ordering or the serialization of a complex, the formatting of None, and
\* lines 56-57 on a payload they cannot handle, "ValueError" for the
\* formatting of a string, "AttributeError" for .get on a value that is no
\* dict).
Failure(err, reason) ==
    [kind |-> "error", err |-> err, reason |-> reason, input |-> NoInput,
     results |-> NoResults, story |-> <<>>]

\* line 69 without the clamp at 0
v_effective_unclamped(v, deflection) == Sub(v, deflection)

\* line 69
v_effective(v, deflection) == PyMax(Zero, Sub(v, deflection))

\* line 100: jsonify cannot serialize a complex number (TypeError); NaN and
\* the infinities it writes
jsonify_raises(results) ==
    \E f \in DOMAIN results : results[f].c = "cplx"

\* lines 63-100: the handler from the coercions on
simulate_from_coercion(d) ==
    LET rawD == Get(d.diameter_m, Lit_50)
        rawv == Get(d.velocity_m_s, Lit_20000)
        rawrho == Get(d.density, Lit_3000)
        rawdepth == Get(d.water_depth_m, Lit_4000)
        rawdefl == Get(d.deflection_m_s, Zero)
    IN
    IF \E x \in {rawD, rawv, rawrho, rawdepth, rawdefl} : float_raises(x)
    THEN Failure("InvalidInput", "")
    ELSE
    LET veff == v_effective(rawv, rawdefl) IN
    IF sphere_mass_raises(rawD, rawrho) THEN Failure("OverflowError", "")
    ELSE
    LET mass == sphere_mass(rawD, rawrho) IN
    IF kinetic_energy_raises(mass, veff) THEN Failure("OverflowError", "")
    ELSE
    LET E == kinetic_energy_joules(mass, veff)
        tnt_mt == tnt_equivalent_megatons(E)
    IN
    IF tsunami_height_raises(E, rawdepth) THEN Failure("TypeError", "")
    ELSE
    LET results == [mass_kg |-> mass,
                    energy_joules |-> E,
                    tnt_megatons |-> tnt_mt,
                    crater_diameter_m |-> crater_diameter_estimate_m(E),
                    seismic_mw_equivalent |-> seismic_mw_equivalent(E),
                    tsunami_initial_height_m |->
                        tsunami_initial_wave_height_m(E, rawdepth),
                    tsunami_radius_km |-> tsunami_radius_km(tnt_mt)]
    IN
    IF jsonify_raises(results) THEN Failure("TypeError", "")
    ELSE
    [kind |-> "result", err |-> "", reason |-> "",
     input |-> [diameter_m |-> rawD, velocity_m_s |-> rawv,
                density |-> rawrho, deflection_m_s |-> rawdefl,
                impact_lat |-> GetNone(d.impact_lat),
                impact_lon |-> GetNone(d.impact_lon),
                water_depth_m |-> rawdepth],
     results |-> results,
     story |-> <<>>]

\* lines 58-61: the catalog's diameter replaces the caller's when the
\* payload has one; any exception on the way to it is swallowed
override_diameter(d, fetched) ==
    IF fetched.dia = Absent THEN d ELSE [d EXCEPT !.diameter_m = fetched.dia]

\* line 56: "error" in neo raises TypeError for None, a number, a boolean
error_in_raises(fetched) == fetched.kind \in {"null", "number"}

\* line 56: "error" in neo, for a dict, a list or a string
error_in(fetched) == fetched.member # "none"

\* line 57: neo["error"] raises TypeError on a string or a list, and so
\* does the concatenation of a str with a member that is no str
concat_raises(fetched) == ~(fetched.kind = "object" /\ fetched.member = "str")

\* lines 56-100 without the test of line 56: a failed lookup falls back to
\* the caller's diameter
simulate_after_lookup_lenient(d, fetched) ==
    simulate_from_coercion(override_diameter(d, fetched))

\* lines 56-100: the handler once fetch_neo_by_id has returned
simulate_after_lookup(d, fetched) ==
    IF error_in_raises(fetched) THEN Failure("TypeError", "")
    ELSE IF error_in(fetched)
    THEN IF concat_raises(fetched) THEN Failure("TypeError", "")
         ELSE Failure("CatalogLookupFailed", fetched.error)
    ELSE simulate_from_coercion(override_diameter(d, fetched))

(* -------------------------------- /story ----------------------------- *)

\* The body of a /story request is a JSON object s, of which the model
\* keeps
\*   results_kind  "absent" when s has no "results" member, "object" when
\*                 the member is an object, "other" for any other value;
\*   results       the five members /story reads, of s["results"];
\*   top           the same five members of s itself;
\*   input_kind    the same three cases for the "input" member;
\*   lat, lon      input.impact_lat and input.impact_lon.
NoFields ==
    [tnt_megatons |-> Absent, crater_diameter_m |-> Absent,
     seismic_mw_equivalent |-> Absent, tsunami_initial_height_m |-> Absent,
     tsunami_radius_km |-> Absent]

\* line 105: r = s.get("results", s), the body itself when it has no
\* "results" member
results_of(s) == IF s.results_kind = "absent" THEN s.top ELSE s.results

\* lines 106-107 and 109: .get on a value that is no dict raises
\* AttributeError
input_get_raises(s) == s.input_kind = "other"
results_get_raises(s) == s.results_kind = "other"

\* Python truthiness of lat and lon: None and 0.0 are false, a non-empty
\* string is true
Truthy(x) == ~(x \in {Absent, Null, Zero})

\* f"{x:...f}" raises for x that is no number: ValueError for a string,
\* TypeError for None
format_raises(x) == ~(IsFloat(x) \/ x.c = "lin")
format_error(x) == IF x.c = "bad" THEN "ValueError" ELSE "TypeError"

\* r.get("crater_diameter_m", 0) / 1000.0 raises TypeError for a member
\* that is no number
crater_km_raises(r) ==
    ~IsFloat(Get(r.crater_diameter_m, Zero))

crater_km(r) == Div(Get(r.crater_diameter_m, Zero), Lit_1000)

\* The paragraph, as the values its template formats with their format
\* specifications, in the order of the text.
story(s) ==
    IF input_get_raises(s) THEN Failure("AttributeError", "input")
    ELSE IF results_get_raises(s) THEN Failure("AttributeError", "results")
    ELSE
    LET r == results_of(s)
        lat == GetNone(s.lat)
        lon == GetNone(s.lon)
        tnt == GetNone(r.tnt_megatons)
        th == GetNone(r.tsunami_initial_height_m)
        radius == GetNone(r.tsunami_radius_km)
        mw == GetNone(r.seismic_mw_equivalent)
        located == Truthy(lat) /\ Truthy(lon)
    IN
    IF crater_km_raises(r) THEN Failure("TypeError", "crater_diameter_m")
    ELSE IF located /\ format_raises(lat)
    THEN Failure(format_error(lat), "impact_lat")
    ELSE IF located /\ format_raises(lon)
    THEN Failure(format_error(lon), "impact_lon")
    ELSE IF format_raises(tnt) THEN Failure(format_error(tnt), "tnt_megatons")
    ELSE IF format_raises(mw)
    THEN Failure(format_error(mw), "seismic_mw_equivalent")
    ELSE IF format_raises(th)
    THEN Failure(format_error(th), "tsunami_initial_height_m")
    ELSE IF format_raises(radius)
    THEN Failure(format_error(radius), "tsunami_radius_km")
    ELSE
    [kind |-> "story", err |-> "", reason |-> "", input |-> NoInput,
     results |-> NoResults,
     story |-> (IF located
                THEN <<[fmt |-> ".3f", v |-> lat], [fmt |-> ".3f", v |-> lon]>>
                ELSE <<>>)
               \o <<[fmt |-> ",.2f", v |-> tnt],
                    [fmt |-> ".2f", v |-> crater_km(r)],
                    [fmt |-> ".2f", v |-> mw],
                    [fmt |-> ".2f", v |-> th],
                    [fmt |-> ".0f", v |-> radius]>>]

(* ---------------------------- the service ---------------------------- *)

\* pc: "idle" between requests, "lookup" while /simulate waits in
\*     requests.get, "done" once the handler has produced its response
\* op: the route of the current request; data: its JSON body
\* neo: what fetch_neo_by_id returned; lookups: calls of requests.get made
\*     for the current request; resp: the response; served: requests done

NoNeo == [kind |-> "none", member |-> "none", error |-> "", dia |-> Absent]
NoData == [neo_id |-> NoNeoId]
NoKernel == [E |-> Absent, depth |-> Absent]
NoKout ==
    [mw |-> Absent, df |-> Absent, h |-> Absent, tnt |-> Absent,
     radius |-> Absent]

Diameters == {Absent, NonNumeric, Lit_50, Pos(400), PosInf, Pos(20000)}
Velocities == {Absent, NonNumeric, Pos(440)}
Densities == {Absent, NonNumeric, Pos(390)}
Depths == {Absent, Null, Pos(200)}
Deflections == {Absent, Pos(370), Lit_20000, Pos(440)}
NeoIds == {NoNeoId, "", "3542519"}

SimulateBodies ==
    [diameter_m : Diameters, velocity_m_s : Velocities, density : Densities,
     water_depth_m : Depths, deflection_m_s : Deflections,
     impact_lat : {Absent}, impact_lon : {Absent}, neo_id : NeoIds]
    \cup
    [diameter_m : {Lit_50}, velocity_m_s : {Lit_20000}, density : {Lit_3000},
     water_depth_m : {Lit_4000}, deflection_m_s : {Zero, Pos(440)},
     impact_lat : {Pos(101)}, impact_lon : {Neg(131)}, neo_id : NeoIds]
    \cup
    \* bodies at the edge of the doubles: a negative energy that underflows
    \* in the wave height, a subnormal r ** 3, a negative mass
    [diameter_m : {Neg(-10500), Pos(-10750), Neg(170)},
     velocity_m_s : {Lit_1, Lit_20000}, density : {Absent},
     water_depth_m : {Absent}, deflection_m_s : {Absent},
     impact_lat : {Absent}, impact_lon : {Absent}, neo_id : {NoNeoId}]

LookupOutcomes ==
    {Raised("timeout"), Raised("404 Client Error"), Raised("Expecting value"),
     Payload("none", "", Absent), Payload("none", "", Pos(250)),
     Payload("none", "", NonNumeric), Payload("none", "", Null),
     Payload("str", "OVER_RATE_LIMIT", Absent), Payload("str", "", Absent),
     Payload("other", "", Absent),
     Scalar("null", "none"), Scalar("number", "none"),
     Scalar("string", "none"), Scalar("string", "other"),
     Scalar("array", "none"), Scalar("array", "other")}

StoryFieldValues ==
    [tnt_megatons : {Absent, Null, NonNumeric, Pos(97)},
     crater_diameter_m : {Absent, Null, NonNumeric, Pos(438)},
     seismic_mw_equivalent : {Absent, Lin(1136)},
     tsunami_initial_height_m : {Absent, NonNumeric, Pos(10)},
     tsunami_radius_km : {Absent, Pos(224)}]

\* the results of scenario 1, at the top level of a body
ScenarioFields ==
    [tnt_megatons |-> Pos(97), crater_diameter_m |-> Pos(438),
     seismic_mw_equivalent |-> Lin(1136), tsunami_initial_height_m |-> Pos(10),
     tsunami_radius_km |-> Pos(224)]

StoryLocations ==
    [input_kind : {"object"}, lat : {Absent, Zero, NonNumeric, Pos(101)},
     lon : {Absent, NonNumeric, Neg(131)}]
    \cup [input_kind : {"absent", "other"}, lat : {Absent}, lon : {Absent}]

\* a full simulation response or a body with a "results" member, a bare
\* results object, and a body whose "results" is no object
StoryBodies ==
    {[results_kind |-> k[1], results |-> k[2], top |-> k[3],
      input_kind |-> l.input_kind, lat |-> l.lat, lon |-> l.lon] :
        k \in ({"object"} \X StoryFieldValues \X {NoFields, ScenarioFields})
              \cup ({"absent"} \X {NoFields} \X StoryFieldValues)
              \cup ({"other"} \X {NoFields} \X {NoFields, ScenarioFields}),
        l \in StoryLocations}

Init ==
    /\ pc = "idle"
    /\ op = "none"
    /\ data = NoData
    /\ neo = NoNeo
    /\ lookups = 0
    /\ resp = NoResponse
    /\ served = 0
    /\ kin = NoKernel
    /\ kout = NoKout

\* /simulate without a neo_id: lines 53-54 and 63-100
SimulateDirect(d) ==
    /\ pc = "idle"
    /\ served < MaxRequests
    /\ ~HasNeoId(d)
    /\ pc' = "done"
    /\ op' = "simulate"
    /\ data' = d
    /\ resp' = simulate_from_coercion(d)
    /\ UNCHANGED <<neo, lookups, served, kin, kout>>

\* /simulate with a neo_id, up to the call of requests.get: lines 53-55, 40
SimulateCallLookup(d) ==
    /\ pc = "idle"
    /\ served < MaxRequests
    /\ HasNeoId(d)
    /\ pc' = "lookup"
    /\ op' = "simulate"
    /\ data' = d
    /\ lookups' = lookups + 1
    /\ UNCHANGED <<neo, resp, served, kin, kout>>

\* a handler that calls the catalog again after a failure
LookupReturnRetry(outcome) ==
    IF outcome.kind = "exc"
    THEN /\ pc = "lookup"
         /\ lookups' = lookups + 1
         /\ UNCHANGED <<pc, op, data, neo, resp, served, kin, kout>>
    ELSE /\ pc = "lookup"
         /\ pc' = "done"
         /\ neo' = fetch_neo_by_id(outcome)
         /\ resp' = simulate_after_lookup(data, fetch_neo_by_id(outcome))
         /\ UNCHANGED <<op, data, lookups, served, kin, kout>>

\* requests.get returns or raises, and the handler runs to its end:
\* lines 40-44 and 56-100
LookupReturn(outcome) ==
    /\ pc = "lookup"
    /\ pc' = "done"
    /\ neo' = fetch_neo_by_id(outcome)
    /\ resp' = simulate_after_lookup(data, fetch_neo_by_id(outcome))
    /\ UNCHANGED <<op, data, lookups, served, kin, kout>>

\* /story: lines 104-125
Story(s) ==
    /\ pc = "idle"
    /\ served < MaxRequests
    /\ pc' = "done"
    /\ op' = "story"
    /\ data' = s
    /\ resp' = story(s)
    /\ UNCHANGED <<neo, lookups, served, kin, kout>>

\* the response is sent; nothing of the request outlives it
Reply ==
    /\ pc = "done"
    /\ pc' = "idle"
    /\ op' = "none"
    /\ data' = NoData
    /\ neo' = NoNeo
    /\ lookups' = 0
    /\ resp' = NoResponse
    /\ served' = served + 1
    /\ UNCHANGED <<kin, kout>>

Next ==
    \/ \E d \in SimulateBodies : SimulateDirect(d)
    \/ \E d \in SimulateBodies : SimulateCallLookup(d)
    \/ \E o \in LookupOutcomes : LookupReturn(o)
    \/ \E s \in StoryBodies : Story(s)
    \/ Reply

Spec == Init /\ [][Next]_vars

(* ------------------------- the kernel on a grid ---------------------- *)

\* energies 10^-MaxDecades .. 10^MaxDecades J in steps of 0.04 decades, and
\* the special values
EnergyGrid ==
    {Pos(4 * k) : k \in (-25 * MaxDecades)..(25 * MaxDecades)}
    \cup {Zero, Neg(1660), PosInf, NegInf, NaN}

DepthGrid ==
    {Pos(-100), Pos(0), Pos(200), Lit_4000, Pos(400), Pos(500), PosInf,
     Zero, Neg(100), NaN}

KInit ==
    /\ pc = "kernel"
    /\ op = "none"
    /\ data = NoData
    /\ neo = NoNeo
    /\ lookups = 0
    /\ resp = NoResponse
    /\ served = 0
    /\ kin \in [E : EnergyGrid, depth : DepthGrid]
    /\ kout = NoKout

\* the helpers of lines 20-35 and 78 applied to one energy and depth; the
\* wave height is left out where line 35 raises
KApply ==
    /\ pc = "kernel"
    /\ pc' = "applied"
    /\ kout' = [mw |-> seismic_mw_equivalent(kin.E),
                df |-> tsunami_depth_factor(kin.depth),
                h |-> IF tsunami_height_raises(kin.E, kin.depth) THEN Absent
                      ELSE tsunami_initial_wave_height_m(kin.E, kin.depth),
                tnt |-> tnt_equivalent_megatons(kin.E),
                radius |-> tsunami_radius_km(tnt_equivalent_megatons(kin.E))]
    /\ UNCHANGED <<op, data, neo, lookups, resp, served, kin>>

KNext == KApply

KernelSpec == KInit /\ [][KNext]_vars

(* ------------------------------ properties --------------------------- *)

SimulateDone == pc = "done" /\ op = "simulate"
StoryDone == pc = "done" /\ op = "story"
Produced == SimulateDone /\ resp.kind = "result"
Failed == resp.kind = "error" /\ resp.input = NoInput /\ resp.results = NoResults

\* every one of the seven result fields and of the five coerced inputs is
\* a float (a magnitude for the seismic field)
CompleteResult ==
    /\ resp.kind = "result"
    /\ \A f \in {"mass_kg", "energy_joules", "tnt_megatons",
                 "crater_diameter_m", "tsunami_initial_height_m",
                 "tsunami_radius_km"} : IsFloat(resp.results[f])
    /\ resp.results.seismic_mw_equivalent.c \in {"lin", "nan", "inf"}
    /\ \A f \in {"diameter_m", "velocity_m_s", "density", "deflection_m_s",
                 "water_depth_m"} : IsFloat(resp.input[f])

\* the five numeric members of a request body, with the default of each
NumericFields ==
    {<<"diameter_m", Lit_50>>, <<"velocity_m_s", Lit_20000>>,
     <<"density", Lit_3000>>, <<"water_depth_m", Lit_4000>>,
     <<"deflection_m_s", Zero>>}

\* a member of body d is supplied and float() cannot convert it
SuppliedBad(d) ==
    \E f \in NumericFields : d[f[1]] # Absent /\ ~IsFloat(d[f[1]])

\* the physics of body d raises (overflow of **, ordering of a complex)
PhysicsRaises(d) ==
    simulate_from_coercion(d).err \in {"OverflowError", "TypeError"}

\* fetch_neo_by_id returned a dict with a string "error" member: what it
\* makes of every exception of requests.get, raise_for_status and r.json()
\* (and what a payload that reports an error message looks like)
LookupFailed ==
    lookups = 1 /\ neo.kind = "object" /\ neo.member = "str"

\* C1: a /simulate request whose catalog lookup failed ends in the
\* CatalogLookupFailed failure carrying the reason of the lookup, with no
\* result field and no echo of inputs.
C1_LookupFailureFailsRequest ==
    (SimulateDone /\ LookupFailed)
        => /\ resp.kind = "error"
           /\ resp.err = "CatalogLookupFailed"
           /\ resp.reason = neo.error
           /\ resp.results = NoResults
           /\ resp.input = NoInput

\* a request whose other inputs would have produced a result, failed by a
\* lookup timeout
C1_Witness ==
    /\ SimulateDone
    /\ LookupFailed
    /\ neo.error = "timeout"
    /\ simulate_from_coercion(data).kind = "result"
    /\ resp.err = "CatalogLookupFailed"
    /\ resp.reason = "timeout"

\* C2 (as claimed): in every produced result whose deflection is at least
\* the velocity, energy_joules is 0, whatever the diameter and density.
C2_DeflectedEnergyIsZero ==
    (Produced /\ Le(resp.input.velocity_m_s, resp.input.deflection_m_s))
        => resp.results.energy_joules = Zero

\* C3 (as claimed): when deflection exceeds velocity every energy-derived
\* output, tsunami_radius_km included, is 0, the magnitude is 0 and the
\* wave height is 0.01.
C3_Original ==
    (Produced /\ Lt(resp.input.velocity_m_s, resp.input.deflection_m_s))
        => /\ resp.results.energy_joules = Zero
           /\ resp.results.tnt_megatons = Zero
           /\ resp.results.crater_diameter_m = Zero
           /\ resp.results.tsunami_radius_km = Zero
           /\ resp.results.seismic_mw_equivalent = Lin(0)
           /\ resp.results.tsunami_initial_height_m = Lit_001

\* C3 (amended): when deflection exceeds velocity the wave height is 0.01
\* and tsunami_radius_km is 100 * 0.001^0.25 (about 17.78 km, e = 125), not
\* 0; energy, TNT equivalent, crater and magnitude are 0 when the mass is
\* finite and NaN when it is not.
C3_DeflectedOutputs ==
    (Produced /\ Lt(resp.input.velocity_m_s, resp.input.deflection_m_s))
        => /\ resp.results.tsunami_initial_height_m = Lit_001
           /\ resp.results.tsunami_radius_km = Pos(125)
           /\ IsNum(resp.results.mass_kg)
                => /\ resp.results.energy_joules = Zero
                   /\ resp.results.tnt_megatons = Zero
                   /\ resp.results.crater_diameter_m = Zero
                   /\ resp.results.seismic_mw_equivalent = Lin(0)
           /\ ~IsNum(resp.results.mass_kg)
                => /\ resp.results.energy_joules = NaN
                   /\ resp.results.tnt_megatons = NaN
                   /\ resp.results.crater_diameter_m = NaN
                   /\ resp.results.seismic_mw_equivalent = NaN

\* scenario 2 of the specification: 50 m, 20000 m/s, 3000 kg/m3, 4000 m,
\* deflection 25000 m/s
C3_Witness ==
    /\ Produced
    /\ resp.input.diameter_m = Lit_50
    /\ resp.input.velocity_m_s = Lit_20000
    /\ resp.input.density = Lit_3000
    /\ resp.input.water_depth_m = Lit_4000
    /\ resp.input.deflection_m_s = Pos(440)
    /\ resp.results.energy_joules = Zero
    /\ resp.results.tsunami_radius_km = Pos(125)

\* the lookup returned a payload that reports no error and has no value at
\* the diameter path
PayloadLacksDiameter ==
    /\ lookups = 1
    /\ neo.kind \in {"object", "array", "string", "number", "null"}
    /\ ~(neo.kind = "object" /\ neo.member # "none")
    /\ neo.dia = Absent

\* C4 (as claimed, for a body whose own members coerce and whose physics
\* does not raise): a lookup that succeeds with a payload lacking the
\* diameter never fails the request: a full result comes back, computed
\* from the caller's diameter or the default.
C4_MissingDiameterDegrades ==
    (SimulateDone /\ PayloadLacksDiameter
        /\ ~SuppliedBad(data) /\ ~PhysicsRaises(data))
        => /\ CompleteResult
           /\ resp.input.diameter_m = Get(data.diameter_m, Lit_50)

\* lines 56-57 raise on the payload the lookup returned
PayloadRaises ==
    /\ lookups = 1
    /\ \/ error_in_raises(neo)
       \/ error_in(neo) /\ concat_raises(neo)

\* the handler reaches the coercions of lines 63-67
Coerced == SimulateDone /\ ~LookupFailed /\ ~PayloadRaises

\* the diameter the coercions see: the catalog's when the lookup returned
\* one, the caller's otherwise
DiameterInForce ==
    IF lookups = 1 /\ neo.dia # Absent THEN neo.dia ELSE data.diameter_m

BodyInForce == [data EXCEPT !.diameter_m = DiameterInForce]

\* C5 (as claimed): every /simulate response is a complete result or a
\* failure with no result field, and a supplied numeric member that cannot
\* be coerced always rejects the request, with no result field returned.
C5_Original ==
    SimulateDone
        => /\ CompleteResult \/ Failed
           /\ SuppliedBad(data) => Failed

\* C5 (amended): every /simulate response is a complete result or a
\* failure with no result field.  A failed lookup rejects the request with
\* CatalogLookupFailed, and a payload lines 56-57 cannot handle with a
\* TypeError, before any coercion; otherwise a member that cannot be
\* coerced rejects it with InvalidInput, where the diameter coerced is the
\* one in force after the catalog override (a non-numeric diameter_m that
\* the catalog replaces is never coerced); absent members take their
\* defaults.
C5_AtomicOutcome ==
    SimulateDone
        => /\ CompleteResult \/ Failed
           /\ LookupFailed => (Failed /\ resp.err = "CatalogLookupFailed")
           /\ PayloadRaises => (Failed /\ resp.err = "TypeError")
           /\ (Coerced /\ SuppliedBad(BodyInForce))
                => (Failed /\ resp.err = "InvalidInput")
           /\ (Coerced /\ ~SuppliedBad(BodyInForce))
                => \/ Failed /\ resp.err \in {"OverflowError", "TypeError"}
                   \/ /\ CompleteResult
                      /\ \A f \in NumericFields :
                            resp.input[f[1]] = Get(BodyInForce[f[1]], f[2])

\* a non-numeric caller diameter replaced by the catalog's: the request
\* succeeds
C5_Witness ==
    /\ SimulateDone
    /\ data.diameter_m = NonNumeric
    /\ data.velocity_m_s = Absent
    /\ neo.dia = Pos(250)
    /\ CompleteResult
    /\ resp.input.diameter_m = Pos(250)
    /\ resp.input.velocity_m_s = Lit_20000

\* C6: the catalog is called at most once per request: once, before any
\* coercion or physics (no response exists while the call is pending),
\* when neo_id is present (non-empty); never when it is absent; never
\* again after a failure; never by /story.
C6_LookupAtMostOnce ==
    /\ lookups \in {0, 1}
    /\ pc = "lookup" => (lookups = 1 /\ op = "simulate" /\ HasNeoId(data)
                         /\ resp = NoResponse)
    /\ SimulateDone => lookups = (IF HasNeoId(data) THEN 1 ELSE 0)
    /\ (SimulateDone /\ neo # NoNeo) => lookups = 1
    /\ op = "story" => lookups = 0

\* a request whose single lookup failed and was not repeated
C6_Witness ==
    /\ SimulateDone
    /\ HasNeoId(data)
    /\ LookupFailed
    /\ lookups = 1
    /\ resp.err = "CatalogLookupFailed"

StoryFields ==
    {"tnt_megatons", "crater_diameter_m", "seismic_mw_equivalent",
     "tsunami_initial_height_m", "tsunami_radius_km"}

\* C7 (as claimed): /story fails whenever one of the five required result
\* members is absent, and never builds a story from a substituted value.
C7_MissingFieldFails ==
    (StoryDone /\ \E f \in StoryFields : results_of(data)[f] = Absent)
        => Failed

\* C8: tsunami_radius_km of every produced result is within [0, 5000] and
\* equals min(5000, 100 * max(0.001, tnt_megatons) ^ 0.25); were that
\* expression to raise, the field would be 0.
C8_RadiusRange ==
    Produced
        => LET tnt == resp.results.tnt_megatons
               radius == resp.results.tsunami_radius_km
           IN /\ Le(Zero, radius)
              /\ Le(radius, Lit_5000)
              /\ ~tsunami_radius_raises(tnt)
                    => radius = PyMin(Lit_5000,
                                      Mul(Lit_100,
                                          PowRoot(PyMax(Lit_0001, tnt), 4)))
              /\ tsunami_radius_raises(tnt) => radius = Zero

\* a 10 km body at 25000 m/s: the radius is cut to 5000 km
C8_Witness ==
    /\ Produced
    /\ Lt(Pos(800), resp.results.tnt_megatons)
    /\ resp.results.tsunami_radius_km = Lit_5000

KApplied == pc = "applied"

\* C9: for a non-negative energy and a positive water depth the wave
\* height is within [0.01, 200.0], and the depth factor within [0.5, 2.0].
C9_WaveHeightRange ==
    (KApplied /\ Le(Zero, kin.E) /\ Lt(Zero, kin.depth))
        => /\ Le(Lit_001, kout.h)
           /\ Le(kout.h, Lit_200)
           /\ Le(Lit_half, kout.df)
           /\ Le(kout.df, Lit_2)

\* 1 m of water under 10^28 J: both clamps cut (factor 2.0, height 200.0)
C9_Witness ==
    /\ KApplied
    /\ kin.E = Pos(2800)
    /\ kin.depth = Pos(0)
    /\ kout.df = Lit_2
    /\ kout.h = Lit_200

\* C10 (as claimed): the magnitude is 0 exactly when the energy is <= 0.
C10_Original ==
    KApplied => ((kout.mw = Lin(0)) <=> Le(kin.E, Zero))

\* C10 (amended): the magnitude is 0 for every energy <= 0; for a positive
\* finite energy it is (log10(E) - 5.24) / 1.44, which is 0 exactly when
\* log10(E) = 5.24 (E about 1.7378e5 J), negative below and positive above.
C10_SeismicMagnitude ==
    KApplied
        => /\ Le(kin.E, Zero) => kout.mw = Lin(0)
           /\ (IsNum(kin.E) /\ kin.E.s > 0)
                => /\ kout.mw = Lin(kin.E.e - 524)
                   /\ (kout.mw = Lin(0)) <=> (kin.E.e = 524)
           /\ (kout.mw = Lin(0)) <=> (Le(kin.E, Zero) \/ kin.E = Pos(524))

\* the positive energy 10^5.24 J has magnitude 0
C10_Witness ==
    /\ KApplied
    /\ kin.E = Pos(524)
    /\ kout.mw = Lin(0)

====
